---- MODULE Spec2Model ----
(***************************************************************************)
(* arcin-infinitas-conf: the configuration record codec (struct.pack /     *)
(* struct.unpack over STRUCT_FMT_EX), the two device transactions          *)
(* load_from_device / save_to_device, and the main window's form logic     *)
(* (__populate_from_conf__ / __extract_conf_from_gui__ and the sub-window  *)
(* handlers) of src/main.py.                                               *)
(***************************************************************************)
EXTENDS Integers, Sequences, FiniteSets, TLC

(***************************************************************************)
(* Python values.  A str is a sequence of code points, a bytes object a    *)
(* sequence of 0..255; both carry their type, because "abc" != b"abc" and  *)
(* because str.encode() exists on one and not on the other.                *)
(***************************************************************************)
PyInt(i) == [t |-> "int", v |-> i]
PyBytes(s) == [t |-> "bytes", v |-> s]
PyStr(s) == [t |-> "str", v |-> s]
None == [t |-> "None"]

Min(a, b) == IF a < b THEN a ELSE b

\* s[0:n]
Take(s, n) == SubSeq(s, 1, Min(Len(s), n))

\* s[n:]
Drop(s, n) == SubSeq(s, n + 1, Len(s))

Zeros(n) == [i \in 1..n |-> 0]

\* one code point as UTF-8 (str.encode() with the default encoding)
Utf8Char(cp) ==
    IF cp < 128 THEN <<cp>>
    ELSE IF cp < 2048 THEN <<192 + (cp \div 64), 128 + (cp % 64)>>
    ELSE <<224 + (cp \div 4096), 128 + ((cp \div 64) % 64), 128 + (cp % 64)>>

RECURSIVE Utf8(_)
Utf8(s) == IF s = <<>> THEN <<>> ELSE Utf8Char(Head(s)) \o Utf8(Tail(s))

\* bytes up to the first NUL: a fixed-width text field read as text
RECURSIVE UpToNul(_)
UpToNul(bs) ==
    IF bs = <<>> \/ Head(bs) = 0 THEN <<>> ELSE <<Head(bs)>> \o UpToNul(Tail(bs))

(***************************************************************************)
(* The record layout.                                                      *)
(***************************************************************************)
ARCIN_CONFIG_VALID_KEYCODES == 13
ARCIN_RGB_MAX_DARKNESS == 255
ARCIN_RGB_NUM_LEDS_MAX == 60

\* sizeof(unsigned long) of the platform the tool runs on (Windows, pywinusb)
SizeOfLong == 4

Fmt(c, n) == [c |-> c, n |-> n]

STRUCT_FMT_EX == <<
    Fmt("s", 12),                            \* uint8 label[12]
    Fmt("L", 1),                             \* uint32 flags
    Fmt("b", 1),                             \* int8 qe1_sens
    Fmt("b", 1),                             \* int8 qe2_sens
    Fmt("x", 1),                             \* reserved
    Fmt("B", 1),                             \* uint8 debounce_ticks
    Fmt("s", 16),                            \* char keycodes[16]
    Fmt("B", 1),                             \* uint8 remap_start_sel
    Fmt("B", 1),                             \* uint8 remap_b8_b9
    Fmt("x", 2),                             \* reserved[2]
    Fmt("B", 1),                             \* uint8 rgb_flags
    Fmt("B", 1), Fmt("B", 1), Fmt("B", 1),   \* primary colour
    Fmt("B", 1),                             \* uint8 rgb_darkness
    Fmt("B", 1), Fmt("B", 1), Fmt("B", 1),   \* secondary colour
    Fmt("B", 1), Fmt("B", 1), Fmt("B", 1),   \* tertiary colour
    Fmt("B", 1),                             \* uint8 rgb_mode
    Fmt("B", 1),                             \* uint8 rgb_num_leds
    Fmt("b", 1),                             \* int8 rgb_speed
    Fmt("B", 1),                             \* uint8 rgb_idle_brightness
    Fmt("x", 5) >>                           \* reserved[5]

ArcinConfigFields == <<
    "label", "flags", "qe1_sens", "qe2_sens",
    "debounce_ticks", "keycodes",
    "remap_start_sel", "remap_b8_b9",
    "rgb_flags",
    "rgb_red", "rgb_green", "rgb_blue",
    "rgb_darkness",
    "rgb_red_2", "rgb_green_2", "rgb_blue_2",
    "rgb_red_3", "rgb_green_3", "rgb_blue_3",
    "rgb_mode", "rgb_num_leds", "rgb_speed", "rgb_idle_brightness" >>

(***************************************************************************)
(* struct.calcsize / struct.pack / struct.unpack in native mode.           *)
(***************************************************************************)
ItemSize(it) ==
    CASE it.c = "s" -> it.n
      [] it.c = "x" -> it.n
      [] it.c = "L" -> SizeOfLong
      [] OTHER -> 1

ItemAlign(it) == IF it.c = "L" THEN SizeOfLong ELSE 1

AlignUp(off, a) == ((off + a - 1) \div a) * a

RECURSIVE SizeFrom(_, _, _)
SizeFrom(fmt, i, off) ==
    IF i > Len(fmt) THEN off
    ELSE SizeFrom(fmt, i + 1, AlignUp(off, ItemAlign(fmt[i])) + ItemSize(fmt[i]))

calcsize(fmt) == SizeFrom(fmt, 1, 0)

IsField(it) == it.c # "x"

FieldItems(fmt) == SelectSeq(fmt, IsField)

\* the range check struct.pack makes on one argument ('L' has no upper
\* bound here: 2^32 - 1 is beyond the integers the checker represents)
Fits(it, a) ==
    CASE it.c = "s" -> a.t = "bytes"
      [] it.c = "B" -> a.t = "int" /\ a.v >= 0 /\ a.v <= 255
      [] it.c = "b" -> a.t = "int" /\ a.v >= -128 /\ a.v <= 127
      [] it.c = "L" -> a.t = "int" /\ a.v >= 0
      [] OTHER -> FALSE

RECURSIVE ToLE(_, _)
ToLE(v, n) == IF n = 0 THEN <<>> ELSE <<v % 256>> \o ToLE(v \div 256, n - 1)

RECURSIVE FromLE(_)
FromLE(bs) == IF bs = <<>> THEN 0 ELSE Head(bs) + 256 * FromLE(Tail(bs))

EncodeItem(it, a) ==
    CASE it.c = "s" -> Take(a.v, it.n) \o Zeros(it.n - Min(Len(a.v), it.n))
      [] it.c = "B" -> <<a.v>>
      [] it.c = "b" -> <<a.v % 256>>
      [] it.c = "L" -> ToLE(a.v, SizeOfLong)
      [] OTHER -> <<>>

\* i: next item of the format, j: next argument, out: the bytes so far
RECURSIVE PackFrom(_, _, _, _, _)
PackFrom(fmt, args, i, j, out) ==
    IF i > Len(fmt) THEN out
    ELSE LET it == fmt[i]
             al == out \o Zeros(AlignUp(Len(out), ItemAlign(it)) - Len(out))
         IN IF it.c = "x"
            THEN PackFrom(fmt, args, i + 1, j, al \o Zeros(it.n))
            ELSE PackFrom(fmt, args, i + 1, j + 1, al \o EncodeItem(it, args[j]))

StructError == [ok |-> FALSE, bytes |-> <<>>, values |-> <<>>]

\* struct.pack without the check of the number of arguments: arguments that
\* are missing are packed as 0
struct_pack_lenient(fmt, args) ==
    LET n == Len(FieldItems(fmt))
        all == [k \in 1..n |-> IF k <= Len(args) THEN args[k] ELSE PyInt(0)]
    IN IF \E k \in 1..n : ~Fits(FieldItems(fmt)[k], all[k])
       THEN StructError
       ELSE [ok |-> TRUE, bytes |-> PackFrom(fmt, all, 1, 1, <<>>), values |-> <<>>]

struct_pack(fmt, args) ==
    IF Len(args) # Len(FieldItems(fmt)) THEN StructError
    ELSE IF \E k \in 1..Len(args) : ~Fits(FieldItems(fmt)[k], args[k])
    THEN StructError
    ELSE [ok |-> TRUE, bytes |-> PackFrom(fmt, args, 1, 1, <<>>), values |-> <<>>]

DecodeItem(it, bs) ==
    CASE it.c = "s" -> PyBytes(bs)
      [] it.c = "B" -> PyInt(bs[1])
      [] it.c = "b" -> PyInt(IF bs[1] >= 128 THEN bs[1] - 256 ELSE bs[1])
      [] it.c = "L" -> PyInt(FromLE(bs))
      [] OTHER -> None

RECURSIVE UnpackFrom(_, _, _, _, _)
UnpackFrom(fmt, data, i, off, out) ==
    IF i > Len(fmt) THEN out
    ELSE LET it == fmt[i]
             at == AlignUp(off, ItemAlign(it))
             nxt == at + ItemSize(it)
         IN IF it.c = "x"
            THEN UnpackFrom(fmt, data, i + 1, nxt, out)
            ELSE UnpackFrom(fmt, data, i + 1, nxt,
                            Append(out, DecodeItem(it, SubSeq(data, at + 1, nxt))))

struct_unpack(fmt, data) ==
    IF Len(data) # calcsize(fmt) THEN StructError
    ELSE [ok |-> TRUE, bytes |-> <<>>, values |-> UnpackFrom(fmt, data, 1, 0, <<>>)]

(***************************************************************************)
(* Bit operations on non-negative integers.                                *)
(***************************************************************************)
RECURSIVE BitOr(_, _)
BitOr(a, b) ==
    IF a = 0 THEN b
    ELSE IF b = 0 THEN a
    ELSE (IF a % 2 = 1 \/ b % 2 = 1 THEN 1 ELSE 0) + 2 * BitOr(a \div 2, b \div 2)

RECURSIVE BitAnd(_, _)
BitAnd(a, b) ==
    IF a = 0 \/ b = 0 THEN 0
    ELSE (IF a % 2 = 1 /\ b % 2 = 1 THEN 1 ELSE 0) + 2 * BitAnd(a \div 2, b \div 2)

Shl(a, n) == a * (2 ^ n)

Shr(a, n) == a \div (2 ^ n)

\* remap is the list [start, select, b8, b9]; Python's remap[0] is remap[1] here
RemapByte(hi, lo) == BitOr(Shl(hi, 4), lo)

(***************************************************************************)
(* The HID device as the two transactions see it.  open_ok, get_ok and     *)
(* send_ok say which of its calls raise; reports are its feature reports.  *)
(***************************************************************************)
REPORT_ID_CONFIG == 192

REPORT_SIZE_BYTE == 60

FEATURE_LEN == 64

RESTART_REPORT == <<176, 32>>

IoEv(op, ok, data) == [op |-> op, ok |-> ok, data |-> data]

Raise == [exc |-> TRUE, val |-> None]

Return(v) == [exc |-> FALSE, val |-> v]

FieldIndex(f) == CHOOSE k \in 1..Len(ArcinConfigFields) : ArcinConfigFields[k] = f

\* ArcinConfig._make(values): TypeError unless there is one value per field
ArcinConfig_make(values) ==
    IF Len(values) # Len(ArcinConfigFields) THEN Raise
    ELSE Return([f \in {ArcinConfigFields[k] : k \in 1..Len(ArcinConfigFields)} |->
                    LET x == values[FieldIndex(f)]
                    IN IF x.t = "int" THEN x.v ELSE x])

\* parse_device that fills a short buffer up with zeros instead of failing
parse_device_padded(report) ==
    IF ~report.has_page THEN Raise
    ELSE LET expected_size == calcsize(STRUCT_FMT_EX)
             truncated == Take(report.value, expected_size)
             padded == truncated \o Zeros(expected_size - Len(truncated))
         IN ArcinConfig_make(struct_unpack(STRUCT_FMT_EX, padded).values)

parse_device(report) ==
    IF ~report.has_page THEN Raise
    ELSE LET data == report.value
             expected_size == calcsize(STRUCT_FMT_EX)
             truncated == Take(data, expected_size)
             unpacked == struct_unpack(STRUCT_FMT_EX, truncated)
         IN IF ~unpacked.ok THEN Raise ELSE ArcinConfig_make(unpacked.values)

\* the for loop of load_from_device from report i on; conf is the value so far
RECURSIVE LoadLoop(_, _, _, _)
LoadLoop(reports, i, conf, io) ==
    IF i > Len(reports) THEN [exc |-> FALSE, conf |-> conf, io |-> io]
    ELSE IF reports[i].report_id # REPORT_ID_CONFIG
    THEN LoadLoop(reports, i + 1, conf, io)
    ELSE IF ~reports[i].get_ok
    THEN [exc |-> TRUE, conf |-> None, io |-> Append(io, IoEv("get", FALSE, <<>>))]
    ELSE LET p == parse_device(reports[i])
             io2 == Append(io, IoEv("get", TRUE, reports[i].value))
         IN IF p.exc THEN [exc |-> TRUE, conf |-> None, io |-> io2]
            ELSE LoadLoop(reports, i + 1, p.val, io2)

\* load_from_device with device.close() after the loop instead of in finally
load_from_device_close_at_end(device) ==
    IF ~device.open_ok
    THEN [ret |-> None, io |-> <<IoEv("open", FALSE, <<>>)>>]
    ELSE LET l == LoadLoop(device.reports, 1, None, <<IoEv("open", TRUE, <<>>)>>)
         IN [ret |-> IF l.exc THEN None ELSE l.conf,
             io |-> IF l.exc THEN l.io ELSE Append(l.io, IoEv("close", TRUE, <<>>))]

load_from_device(device) ==
    IF ~device.open_ok
    THEN [ret |-> None, io |-> <<IoEv("open", FALSE, <<>>), IoEv("close", TRUE, <<>>)>>]
    ELSE LET l == LoadLoop(device.reports, 1, None, <<IoEv("open", TRUE, <<>>)>>)
         IN [ret |-> IF l.exc THEN None ELSE l.conf,
             io |-> Append(l.io, IoEv("close", TRUE, <<>>))]

\* the arguments save_to_device hands to struct.pack after the format
PackArgs(conf) == <<
    PyBytes(Utf8(Take(conf.label.v, 12))),
    PyInt(conf.flags),
    PyInt(conf.qe1_sens),
    PyInt(conf.qe2_sens),
    PyInt(conf.debounce_ticks),
    [t |-> conf.keycodes.t, v |-> Take(conf.keycodes.v, 16)],
    PyInt(conf.remap_start_sel),
    PyInt(conf.remap_b8_b9),
    PyInt(conf.rgb_flags),
    PyInt(conf.rgb_red),
    PyInt(conf.rgb_green),
    PyInt(conf.rgb_blue),
    PyInt(conf.rgb_darkness),
    PyInt(conf.rgb_red_2),
    PyInt(conf.rgb_green_2),
    PyInt(conf.rgb_blue_2),
    PyInt(conf.rgb_red_3),
    PyInt(conf.rgb_green_3),
    PyInt(conf.rgb_blue_3),
    PyInt(conf.rgb_mode),
    PyInt(conf.rgb_num_leds),
    PyInt(conf.rgb_speed) >>

\* the first try block: bytes has no encode(), so a bytes label raises too
PackConf(conf) ==
    IF conf.label.t # "str" THEN StructError
    ELSE struct_pack(STRUCT_FMT_EX, PackArgs(conf))

\* feature[4:4+len(packed)] = packed on feature = [0x00] * 64
FeatureReport(packed) ==
    LET feature == <<REPORT_ID_CONFIG, 0, REPORT_SIZE_BYTE, 0>> \o Zeros(FEATURE_LEN - 4)
    IN Take(feature, 4) \o packed \o Drop(feature, 4 + Len(packed))

SaveFailed(io) == [ret |-> <<FALSE, "Failed to write to device">>,
                   io |-> Append(io, IoEv("close", TRUE, <<>>))]

\* save_to_device that restarts the board before it returns the format error
save_to_device_restart_anyway(device, conf) ==
    LET packed == PackConf(conf)
        feature == FeatureReport(packed.bytes)
    IN IF ~packed.ok
       THEN [ret |-> <<FALSE, "Format error">>,
             io |-> <<IoEv("open", TRUE, <<>>), IoEv("send", TRUE, RESTART_REPORT),
                      IoEv("close", TRUE, <<>>)>>]
       ELSE IF ~device.open_ok THEN SaveFailed(<<IoEv("open", FALSE, <<>>)>>)
       ELSE IF ~device.send_ok[1]
       THEN SaveFailed(<<IoEv("open", TRUE, <<>>), IoEv("send", FALSE, feature)>>)
       ELSE IF ~device.send_ok[2]
       THEN SaveFailed(<<IoEv("open", TRUE, <<>>), IoEv("send", TRUE, feature),
                         IoEv("send", FALSE, RESTART_REPORT)>>)
       ELSE [ret |-> <<TRUE, "Success">>,
             io |-> <<IoEv("open", TRUE, <<>>), IoEv("send", TRUE, feature),
                      IoEv("send", TRUE, RESTART_REPORT), IoEv("close", TRUE, <<>>)>>]

save_to_device(device, conf) ==
    LET packed == PackConf(conf)
        feature == FeatureReport(packed.bytes)
    IN IF ~packed.ok THEN [ret |-> <<FALSE, "Format error">>, io |-> <<>>]
       ELSE IF ~device.open_ok THEN SaveFailed(<<IoEv("open", FALSE, <<>>)>>)
       ELSE IF Len(feature) # FEATURE_LEN THEN SaveFailed(<<IoEv("open", TRUE, <<>>)>>)
       ELSE IF ~device.send_ok[1]
       THEN SaveFailed(<<IoEv("open", TRUE, <<>>), IoEv("send", FALSE, feature)>>)
       ELSE IF ~device.send_ok[2]
       THEN SaveFailed(<<IoEv("open", TRUE, <<>>), IoEv("send", TRUE, feature),
                         IoEv("send", FALSE, RESTART_REPORT)>>)
       ELSE [ret |-> <<TRUE, "Success">>,
             io |-> <<IoEv("open", TRUE, <<>>), IoEv("send", TRUE, feature),
                      IoEv("send", TRUE, RESTART_REPORT), IoEv("close", TRUE, <<>>)>>]

(***************************************************************************)
(* The main window's form: option tables, flag bits and wx controls.  A    *)
(* choice control is its selection (NOT_FOUND when nothing is selected), a *)
(* check box a boolean, the text control its text.                         *)
(***************************************************************************)
SENS_OPTIONS == <<
    <<"1:1", 0>>, <<"1:2", -2>>, <<"1:3", -3>>, <<"1:4", -4>>, <<"1:6", -6>>,
    <<"1:8", -8>>, <<"1:11", -11>>, <<"1:16", -16>>, <<"2:1", 2>>, <<"3:1", 3>>,
    <<"4:1", 4>>, <<"6:1", 6>>, <<"8:1", 8>>, <<"11:1", 11>>, <<"16:1", 16>> >>

EFFECTOR_NAMES == <<"E1 (JOY 9)", "E2 (JOY 10)", "E3 (JOY 11)", "E4 (JOY 12)">>

DEFAULT_EFFECTOR_MAPPING == <<1, 2, 3, 4>>

ARCIN_CONFIG_FLAG_SEL_MULTI_TAP == Shl(1, 0)
ARCIN_CONFIG_FLAG_INVERT_QE1 == Shl(1, 1)
ARCIN_CONFIG_FLAG_DIGITAL_TT_ENABLE == Shl(1, 3)
ARCIN_CONFIG_FLAG_DEBOUNCE == Shl(1, 4)
ARCIN_CONFIG_FLAG_250HZ_MODE == Shl(1, 5)
ARCIN_CONFIG_FLAG_ANALOG_TT_FORCE_ENABLE == Shl(1, 6)
ARCIN_CONFIG_FLAG_KEYBOARD_ENABLE == Shl(1, 7)
ARCIN_CONFIG_FLAG_JOYINPUT_DISABLE == Shl(1, 8)
ARCIN_CONFIG_FLAG_MODE_SWITCHING_ENABLE == Shl(1, 9)
ARCIN_CONFIG_FLAG_LED_OFF == Shl(1, 10)
ARCIN_CONFIG_FLAG_TT_LED_REACTIVE == Shl(1, 11)
ARCIN_CONFIG_FLAG_TT_LED_HID == Shl(1, 12)
ARCIN_CONFIG_FLAG_WS2812B == Shl(1, 13)

\* the 13 defined flag bits
DefinedFlagBits == {0, 1, 3, 4, 5, 6, 7, 8, 9, 10, 11, 12, 13}

\* conf.flags & FLAG, as a truth value
Has(flags, flag) == BitAnd(flags, flag) # 0

NOT_FOUND == -1

\* Select(n) on a choice of count items; an n that is no item leaves the
\* choice without a selection (CB_SETCURSEL)
WxSelect(n, count) == IF n >= 0 /\ n < count THEN n ELSE NOT_FOUND

\* SetValue(v) on a spin control of range lo..hi
WxSpinSet(v, lo, hi) == IF v < lo THEN lo ELSE IF v > hi THEN hi ELSE v

PyList(s) == [t |-> "list", v |-> s]

\* SensIndex counting the options from one
SensIndex_from_one(qe1_sens) ==
    IF \E i \in 1..Len(SENS_OPTIONS) : SENS_OPTIONS[i][2] = qe1_sens
    THEN CHOOSE i \in 1..Len(SENS_OPTIONS) :
             /\ SENS_OPTIONS[i][2] = qe1_sens
             /\ \A j \in 1..(i - 1) : SENS_OPTIONS[j][2] # qe1_sens
    ELSE -4

\* the index __populate_from_conf__ hands to qe1_sens_ctrl.Select
SensIndex(qe1_sens) ==
    IF \E i \in 1..Len(SENS_OPTIONS) : SENS_OPTIONS[i][2] = qe1_sens
    THEN (CHOOSE i \in 1..Len(SENS_OPTIONS) :
             /\ SENS_OPTIONS[i][2] = qe1_sens
             /\ \A j \in 1..(i - 1) : SENS_OPTIONS[j][2] # qe1_sens) - 1
    ELSE -4

\* the controls of the main window after __populate_from_conf__(conf); the
\* text control shows the label up to its first NUL
PopulateCtrl(conf) == [
    title_ctrl |-> UpToNul(conf.label.v),
    multitap_check |-> Has(conf.flags, ARCIN_CONFIG_FLAG_SEL_MULTI_TAP),
    qe1_invert_check |-> Has(conf.flags, ARCIN_CONFIG_FLAG_INVERT_QE1),
    debounce_check |-> Has(conf.flags, ARCIN_CONFIG_FLAG_DEBOUNCE),
    mode_switch_check |-> Has(conf.flags, ARCIN_CONFIG_FLAG_MODE_SWITCHING_ENABLE),
    led_off_check |-> Has(conf.flags, ARCIN_CONFIG_FLAG_LED_OFF),
    ws2812b_check |-> Has(conf.flags, ARCIN_CONFIG_FLAG_WS2812B),
    poll_rate_ctrl |-> IF Has(conf.flags, ARCIN_CONFIG_FLAG_250HZ_MODE) THEN 1 ELSE 0,
    qe1_tt_ctrl |->
        IF Has(conf.flags, ARCIN_CONFIG_FLAG_DIGITAL_TT_ENABLE)
            /\ Has(conf.flags, ARCIN_CONFIG_FLAG_ANALOG_TT_FORCE_ENABLE) THEN 2
        ELSE IF Has(conf.flags, ARCIN_CONFIG_FLAG_DIGITAL_TT_ENABLE) THEN 1
        ELSE 0,
    input_mode_ctrl |->
        IF Has(conf.flags, ARCIN_CONFIG_FLAG_KEYBOARD_ENABLE)
            /\ Has(conf.flags, ARCIN_CONFIG_FLAG_JOYINPUT_DISABLE) THEN 1
        ELSE IF Has(conf.flags, ARCIN_CONFIG_FLAG_KEYBOARD_ENABLE) THEN 2
        ELSE 0,
    led_mode_ctrl |->
        IF Has(conf.flags, ARCIN_CONFIG_FLAG_TT_LED_REACTIVE) THEN 1
        ELSE IF Has(conf.flags, ARCIN_CONFIG_FLAG_TT_LED_HID) THEN 2
        ELSE 0,
    debounce_ctrl |-> WxSpinSet(conf.debounce_ticks, 2, 10),
    qe1_sens_ctrl |-> WxSelect(SensIndex(conf.qe1_sens), Len(SENS_OPTIONS)) ]

\* PopulateRemap that puts the default of a slot in place of a stored 0
PopulateRemap_defaulting(conf) ==
    LET rm == << BitAnd(Shr(conf.remap_start_sel, 4), 15),
                 BitAnd(conf.remap_start_sel, 15),
                 BitAnd(Shr(conf.remap_b8_b9, 4), 15),
                 BitAnd(conf.remap_b8_b9, 15) >>
    IN [i \in 1..4 |-> IF rm[i] = 0 THEN DEFAULT_EFFECTOR_MAPPING[i] ELSE rm[i]]

\* self.remap after lines 793-796
PopulateRemap(conf) == <<
    BitAnd(Shr(conf.remap_start_sel, 4), 15),
    BitAnd(conf.remap_start_sel, 15),
    BitAnd(Shr(conf.remap_b8_b9, 4), 15),
    BitAnd(conf.remap_b8_b9, 15) >>

Rgb(r, g, b) == [r |-> r, g |-> g, b |-> b]

RgbConfig(flags, rgb1, darkness, rgb2, rgb3, mode, num_leds, speed, idle_brightness) ==
    [flags |-> flags, rgb1 |-> rgb1, darkness |-> darkness, rgb2 |-> rgb2,
     rgb3 |-> rgb3, mode |-> mode, num_leds |-> num_leds, speed |-> speed,
     idle_brightness |-> idle_brightness]

PopulateRgbConfig(conf) ==
    RgbConfig(conf.rgb_flags,
              Rgb(conf.rgb_red, conf.rgb_green, conf.rgb_blue),
              conf.rgb_darkness,
              Rgb(conf.rgb_red_2, conf.rgb_green_2, conf.rgb_blue_2),
              Rgb(conf.rgb_red_3, conf.rgb_green_3, conf.rgb_blue_3),
              conf.rgb_mode, conf.rgb_num_leds, conf.rgb_speed,
              conf.rgb_idle_brightness)

OrIf(flags, cond, flag) == IF cond THEN BitOr(flags, flag) ELSE flags

\* ExtractFlags with the flag of ws2812b_check also set for led_off_check
ExtractFlags_led_off_as_ws2812b(c) ==
    LET f1 == OrIf(0, c.multitap_check, ARCIN_CONFIG_FLAG_SEL_MULTI_TAP)
        f2 == OrIf(f1, c.qe1_invert_check, ARCIN_CONFIG_FLAG_INVERT_QE1)
        f3 == OrIf(f2, c.debounce_check, ARCIN_CONFIG_FLAG_DEBOUNCE)
        f4 == OrIf(f3, c.mode_switch_check, ARCIN_CONFIG_FLAG_MODE_SWITCHING_ENABLE)
        f5 == OrIf(f4, c.led_off_check, ARCIN_CONFIG_FLAG_WS2812B)
        f6 == OrIf(f5, c.ws2812b_check, ARCIN_CONFIG_FLAG_WS2812B)
        f7 == OrIf(f6, c.poll_rate_ctrl = 1, ARCIN_CONFIG_FLAG_250HZ_MODE)
        f8 == OrIf(f7, c.qe1_tt_ctrl \in {1, 2}, ARCIN_CONFIG_FLAG_DIGITAL_TT_ENABLE)
        f9 == OrIf(f8, c.qe1_tt_ctrl = 2, ARCIN_CONFIG_FLAG_ANALOG_TT_FORCE_ENABLE)
        f10 == OrIf(f9, c.input_mode_ctrl \in {1, 2}, ARCIN_CONFIG_FLAG_KEYBOARD_ENABLE)
        f11 == OrIf(f10, c.input_mode_ctrl = 1, ARCIN_CONFIG_FLAG_JOYINPUT_DISABLE)
        f12 == OrIf(f11, c.led_mode_ctrl = 1, ARCIN_CONFIG_FLAG_TT_LED_REACTIVE)
    IN OrIf(f12, c.led_mode_ctrl = 2, ARCIN_CONFIG_FLAG_TT_LED_HID)

\* the flags word __extract_conf_from_gui__ builds from the controls c
ExtractFlags(c) ==
    LET f1 == OrIf(0, c.multitap_check, ARCIN_CONFIG_FLAG_SEL_MULTI_TAP)
        f2 == OrIf(f1, c.qe1_invert_check, ARCIN_CONFIG_FLAG_INVERT_QE1)
        f3 == OrIf(f2, c.debounce_check, ARCIN_CONFIG_FLAG_DEBOUNCE)
        f4 == OrIf(f3, c.mode_switch_check, ARCIN_CONFIG_FLAG_MODE_SWITCHING_ENABLE)
        f5 == OrIf(f4, c.led_off_check, ARCIN_CONFIG_FLAG_LED_OFF)
        f6 == OrIf(f5, c.ws2812b_check, ARCIN_CONFIG_FLAG_WS2812B)
        f7 == OrIf(f6, c.poll_rate_ctrl = 1, ARCIN_CONFIG_FLAG_250HZ_MODE)
        f8 == OrIf(f7, c.qe1_tt_ctrl \in {1, 2}, ARCIN_CONFIG_FLAG_DIGITAL_TT_ENABLE)
        f9 == OrIf(f8, c.qe1_tt_ctrl = 2, ARCIN_CONFIG_FLAG_ANALOG_TT_FORCE_ENABLE)
        f10 == OrIf(f9, c.input_mode_ctrl \in {1, 2}, ARCIN_CONFIG_FLAG_KEYBOARD_ENABLE)
        f11 == OrIf(f10, c.input_mode_ctrl = 1, ARCIN_CONFIG_FLAG_JOYINPUT_DISABLE)
        f12 == OrIf(f11, c.led_mode_ctrl = 1, ARCIN_CONFIG_FLAG_TT_LED_REACTIVE)
    IN OrIf(f12, c.led_mode_ctrl = 2, ARCIN_CONFIG_FLAG_TT_LED_HID)

ExtractDebounce(c) ==
    IF 2 <= c.debounce_ctrl /\ c.debounce_ctrl <= 10 THEN c.debounce_ctrl ELSE 2

\* qe1_sens_ctrl.GetValue(): the selected string, empty without a selection
SensValue(c) ==
    IF c.qe1_sens_ctrl = NOT_FOUND THEN "" ELSE SENS_OPTIONS[c.qe1_sens_ctrl + 1][1]

\* ExtractSens that takes 0 when no ratio is selected
ExtractSens_default_zero(c) ==
    IF \E i \in 1..Len(SENS_OPTIONS) : SENS_OPTIONS[i][1] = SensValue(c)
    THEN SENS_OPTIONS[CHOOSE i \in 1..Len(SENS_OPTIONS) :
                          SENS_OPTIONS[i][1] = SensValue(c)][2]
    ELSE 0

ExtractSens(c) ==
    IF \E i \in 1..Len(SENS_OPTIONS) : SENS_OPTIONS[i][1] = SensValue(c)
    THEN SENS_OPTIONS[CHOOSE i \in 1..Len(SENS_OPTIONS) :
                          SENS_OPTIONS[i][1] = SensValue(c)][2]
    ELSE -4

ExtractKeycodes(kc) ==
    IF kc # None /\ kc.v # <<>> THEN PyBytes(kc.v)
    ELSE PyBytes(Zeros(ARCIN_CONFIG_VALID_KEYCODES))

\* __extract_conf_from_gui__: with an rgb_config it reads
\* rgb_config.rgb_idle_brightness, which RgbConfig does not have
extract_conf_from_gui(c, kc, rm, rgb) ==
    IF rgb # None THEN Raise
    ELSE Return([
        label |-> PyStr(c.title_ctrl),
        flags |-> ExtractFlags(c),
        qe1_sens |-> ExtractSens(c),
        qe2_sens |-> 0,
        debounce_ticks |-> ExtractDebounce(c),
        keycodes |-> ExtractKeycodes(kc),
        remap_start_sel |-> RemapByte(rm[1], rm[2]),
        remap_b8_b9 |-> RemapByte(rm[3], rm[4]),
        rgb_flags |-> 0,
        rgb_red |-> 0, rgb_green |-> 0, rgb_blue |-> 0,
        rgb_darkness |-> 0,
        rgb_red_2 |-> 0, rgb_green_2 |-> 0, rgb_blue_2 |-> 0,
        rgb_red_3 |-> 0, rgb_green_3 |-> 0, rgb_blue_3 |-> 0,
        rgb_mode |-> 0,
        rgb_num_leds |-> ARCIN_RGB_NUM_LEDS_MAX,
        rgb_speed |-> 0,
        rgb_idle_brightness |-> 0 ])

(***************************************************************************)
(* The remapper window.  It is handed the main window's remap list itself, *)
(* and populate_ui_from_remap writes the defaults into that list.          *)
(***************************************************************************)
\* RemapDefaulted with the default of Start in every slot
RemapDefaulted_start_only(rm) ==
    [i \in 1..Len(rm) |-> IF rm[i] = 0 THEN DEFAULT_EFFECTOR_MAPPING[1] ELSE rm[i]]

RemapDefaulted(rm) ==
    [i \in 1..Len(rm) |-> IF rm[i] = 0 THEN DEFAULT_EFFECTOR_MAPPING[i] ELSE rm[i]]

\* the four choices after populate_ui_from_remap(rm)
RemapperFrame(rm) ==
    LET d == RemapDefaulted(rm)
    IN [remap_start_ctrl |-> WxSelect(d[1] - 1, Len(EFFECTOR_NAMES)),
        remap_select_ctrl |-> WxSelect(d[2] - 1, Len(EFFECTOR_NAMES)),
        remap_b8_ctrl |-> WxSelect(d[3] - 1, Len(EFFECTOR_NAMES)),
        remap_b9_ctrl |-> WxSelect(d[4] - 1, Len(EFFECTOR_NAMES))]

extract_remap_from_ui(frame) == <<
    frame.remap_start_ctrl + 1,
    frame.remap_select_ctrl + 1,
    frame.remap_b8_ctrl + 1,
    frame.remap_b9_ctrl + 1 >>

(***************************************************************************)
(* The RGB window.                                                         *)
(***************************************************************************)
RGB_MODE_OPTIONS == <<"Single-color", "Tricolor", "Single-color Rainbow",
                      "Spiral rainbow", "Rainbow wave", "Single-color fade",
                      "Two-color fade">>

RGB_TT_FADE_OUT_OPTIONS == <<"Instant", "Quick", "Slow", "Really slow">>

ARCIN_RGB_FLAG_ENABLE_HID == Shl(1, 0)
ARCIN_RGB_FLAG_REACT_TO_TT == Shl(1, 1)
ARCIN_RGB_FLAG_FLIP_DIRECTION == Shl(1, 2)
ARCIN_RGB_FLAG_FADE_OUT_FAST == Shl(1, 3)
ARCIN_RGB_FLAG_FADE_OUT_SLOW == Shl(1, 4)

\* the controls as RgbWindowFrame.__init__ creates them
NewRgbFrame == [
    hid_rgb_check |-> FALSE, qe1_react_check |-> FALSE, flip_direction_check |-> FALSE,
    rgb1_button |-> Rgb(0, 0, 0), rgb2_button |-> Rgb(0, 0, 0),
    rgb3_button |-> Rgb(0, 0, 0),
    led_mode_ctrl |-> 0,
    intensity_slider |-> ARCIN_RGB_MAX_DARKNESS,
    idle_intensity_slider |-> 0,
    num_leds_slider |-> ARCIN_RGB_NUM_LEDS_MAX,
    speed_slider |-> 0,
    fadeout_ctrl |-> 0 ]

\* populate_ui without the branch for a stored LED count of 0
populate_ui_without_zero_branch(config) == [
    hid_rgb_check |-> Has(config.flags, ARCIN_RGB_FLAG_ENABLE_HID),
    qe1_react_check |-> Has(config.flags, ARCIN_RGB_FLAG_REACT_TO_TT),
    flip_direction_check |-> Has(config.flags, ARCIN_RGB_FLAG_FLIP_DIRECTION),
    rgb1_button |-> config.rgb1, rgb2_button |-> config.rgb2,
    rgb3_button |-> config.rgb3,
    led_mode_ctrl |-> WxSelect(config.mode, Len(RGB_MODE_OPTIONS)),
    intensity_slider |->
        WxSpinSet(ARCIN_RGB_MAX_DARKNESS - config.darkness, 0, ARCIN_RGB_MAX_DARKNESS),
    idle_intensity_slider |->
        WxSpinSet(config.idle_brightness, 0, ARCIN_RGB_MAX_DARKNESS),
    num_leds_slider |-> WxSpinSet(config.num_leds, 1, ARCIN_RGB_NUM_LEDS_MAX),
    speed_slider |-> WxSpinSet(config.speed, -128, 127),
    fadeout_ctrl |->
        WxSelect((IF Has(config.flags, ARCIN_RGB_FLAG_FADE_OUT_FAST) THEN 1 ELSE 0)
                   + (IF Has(config.flags, ARCIN_RGB_FLAG_FADE_OUT_SLOW) THEN 2 ELSE 0),
                 Len(RGB_TT_FADE_OUT_OPTIONS)) ]

\* RgbWindowFrame.populate_ui(config); a slider keeps its value in its range
populate_ui(config) == [
    hid_rgb_check |-> Has(config.flags, ARCIN_RGB_FLAG_ENABLE_HID),
    qe1_react_check |-> Has(config.flags, ARCIN_RGB_FLAG_REACT_TO_TT),
    flip_direction_check |-> Has(config.flags, ARCIN_RGB_FLAG_FLIP_DIRECTION),
    rgb1_button |-> config.rgb1, rgb2_button |-> config.rgb2,
    rgb3_button |-> config.rgb3,
    led_mode_ctrl |-> WxSelect(config.mode, Len(RGB_MODE_OPTIONS)),
    intensity_slider |->
        WxSpinSet(ARCIN_RGB_MAX_DARKNESS - config.darkness, 0, ARCIN_RGB_MAX_DARKNESS),
    idle_intensity_slider |->
        WxSpinSet(config.idle_brightness, 0, ARCIN_RGB_MAX_DARKNESS),
    num_leds_slider |->
        IF config.num_leds = 0 THEN ARCIN_RGB_NUM_LEDS_MAX
        ELSE WxSpinSet(config.num_leds, 1, ARCIN_RGB_NUM_LEDS_MAX),
    speed_slider |-> WxSpinSet(config.speed, -128, 127),
    fadeout_ctrl |->
        WxSelect((IF Has(config.flags, ARCIN_RGB_FLAG_FADE_OUT_FAST) THEN 1 ELSE 0)
                   + (IF Has(config.flags, ARCIN_RGB_FLAG_FADE_OUT_SLOW) THEN 2 ELSE 0),
                 Len(RGB_TT_FADE_OUT_OPTIONS)) ]

\* the window RgbWindowFrame(rgb_config=config) shows
RgbFrame(config) == IF config = None THEN NewRgbFrame ELSE populate_ui(config)

\* RgbWindowFrame.extract_from_ui
extract_from_ui(frame) ==
    LET f1 == OrIf(0, frame.hid_rgb_check, ARCIN_RGB_FLAG_ENABLE_HID)
        f2 == OrIf(f1, frame.qe1_react_check, ARCIN_RGB_FLAG_REACT_TO_TT)
        f3 == OrIf(f2, frame.flip_direction_check, ARCIN_RGB_FLAG_FLIP_DIRECTION)
        f4 == OrIf(f3, frame.fadeout_ctrl \in {2, 3}, ARCIN_RGB_FLAG_FADE_OUT_SLOW)
        f5 == OrIf(f4, frame.fadeout_ctrl \in {1, 3}, ARCIN_RGB_FLAG_FADE_OUT_FAST)
    IN RgbConfig(f5, frame.rgb1_button,
                 ARCIN_RGB_MAX_DARKNESS - frame.intensity_slider,
                 frame.rgb2_button, frame.rgb3_button,
                 frame.led_mode_ctrl, frame.num_leds_slider, frame.speed_slider,
                 frame.idle_intensity_slider)

(***************************************************************************)
(* The key bindings window.  usb_hid_keys.py is not part of the sources:   *)
(* USB_HID_KEYS is a table of key names and codes, its first entry the     *)
(* unbound key, and USB_HID_KEYCODES maps each code to its place in it.    *)
(***************************************************************************)
USB_HID_KEYS == << <<"(None)", 0>>, <<"A", 4>>, <<"B", 5>>, <<"C", 6>> >>

KeyCodeKnown(k) == \E i \in 1..Len(USB_HID_KEYS) : USB_HID_KEYS[i][2] = k

\* USB_HID_KEYCODES[k]
KeyCodeIndex(k) == (CHOOSE i \in 1..Len(USB_HID_KEYS) : USB_HID_KEYS[i][2] = k) - 1

\* the 13 choices, each on entry 0, then populate_ui_from_keycodes(keycodes)
KeybindsFrame(kc) ==
    [controls_list |->
        [i \in 1..ARCIN_CONFIG_VALID_KEYCODES |->
            IF kc # None /\ KeyCodeKnown(kc.v[i]) THEN KeyCodeIndex(kc.v[i]) ELSE 0]]

extract_keycodes_from_ui(frame) ==
    PyList([i \in 1..ARCIN_CONFIG_VALID_KEYCODES |->
               USB_HID_KEYS[frame.controls_list[i] + 1][2]])

(***************************************************************************)
(* Inputs of the codec: configuration values, device records, devices.     *)
(***************************************************************************)
MaxLabelLen == 13

MaxNibbleInput == 16

MaxReports == 2

\* "ABC..." of n characters
LabelOfLen(n) == [i \in 1..n |-> 64 + i]

KeycodesOfLen(n) == [i \in 1..n |-> 3 + i]

BaseConf == [
    label |-> PyStr(LabelOfLen(5)), flags |-> 16, qe1_sens |-> -4, qe2_sens |-> 0,
    debounce_ticks |-> 2, keycodes |-> PyBytes(Zeros(ARCIN_CONFIG_VALID_KEYCODES)),
    remap_start_sel |-> RemapByte(1, 2), remap_b8_b9 |-> RemapByte(3, 4),
    rgb_flags |-> 0,
    rgb_red |-> 0, rgb_green |-> 0, rgb_blue |-> 0,
    rgb_darkness |-> 0,
    rgb_red_2 |-> 0, rgb_green_2 |-> 0, rgb_blue_2 |-> 0,
    rgb_red_3 |-> 0, rgb_green_3 |-> 0, rgb_blue_3 |-> 0,
    rgb_mode |-> 0, rgb_num_leds |-> ARCIN_RGB_NUM_LEDS_MAX, rgb_speed |-> 0,
    rgb_idle_brightness |-> 0 ]

Labels ==
    {PyStr(LabelOfLen(n)) : n \in 0..MaxLabelLen}
        \cup {PyStr(<<233, 116, 233>>), PyBytes(LabelOfLen(3))}

UByteFields == {"debounce_ticks", "rgb_flags", "rgb_red", "rgb_green", "rgb_blue",
                "rgb_darkness", "rgb_red_2", "rgb_green_2", "rgb_blue_2",
                "rgb_red_3", "rgb_green_3", "rgb_blue_3", "rgb_mode",
                "rgb_idle_brightness"}

SByteFields == {"qe1_sens", "qe2_sens", "rgb_speed"}

\* one field of BaseConf varied at a time, in and out of its width
ConfInputs ==
    {[BaseConf EXCEPT !.label = l] : l \in Labels}
        \cup {[BaseConf EXCEPT !.flags = f] : f \in {0, 1, 64, 8192, 16383, -1}}
        \cup {[BaseConf EXCEPT ![f] = v] : f \in UByteFields, v \in {-1, 0, 7, 255, 256}}
        \cup {[BaseConf EXCEPT ![f] = v] : f \in SByteFields, v \in {-129, -128, 5, 127, 128}}
        \cup {[BaseConf EXCEPT !.rgb_num_leds = v] :
                 v \in {0, 1, ARCIN_RGB_NUM_LEDS_MAX, ARCIN_RGB_NUM_LEDS_MAX + 1, 255, 256}}
        \cup {[BaseConf EXCEPT !.keycodes = PyBytes(KeycodesOfLen(n))] :
                 n \in {ARCIN_CONFIG_VALID_KEYCODES, 16, 17}}

RemapInputs == [1..4 -> {0, 1, 4, 15, MaxNibbleInput}]

\* the record a firmware holding conf reports: every field at its offset
DeviceRecord(conf) ==
    PackFrom(STRUCT_FMT_EX,
             [k \in 1..Len(ArcinConfigFields) |->
                 LET x == conf[ArcinConfigFields[k]]
                 IN IF k \in {1, 6} THEN PyBytes(x.v) ELSE PyInt(x)],
             1, 1, <<>>)

FirmwareConfs == {
    [BaseConf EXCEPT !.label = PyBytes(LabelOfLen(11))],
    [BaseConf EXCEPT !.label = PyBytes(LabelOfLen(12)), !.qe1_sens = 5,
                     !.flags = 8192 + 64 + 8, !.remap_start_sel = 0,
                     !.remap_b8_b9 = RemapByte(15, 4), !.rgb_num_leds = 0,
                     !.rgb_speed = -3, !.keycodes = PyBytes(KeycodesOfLen(16))] }

\* report data of several lengths: short, exact, and longer than the record
DataLens == {0, 10, 20, 44, 59, 60, FEATURE_LEN}

DataSet == {Take(DeviceRecord(c) \o Zeros(4), n) : c \in FirmwareConfs, n \in DataLens}

MkReport(id, get_ok, has_page, value) ==
    [report_id |-> id, get_ok |-> get_ok, has_page |-> has_page, value |-> value]

ReportSet ==
    {MkReport(1, TRUE, FALSE, <<>>),
     MkReport(REPORT_ID_CONFIG, FALSE, FALSE, <<>>),
     MkReport(REPORT_ID_CONFIG, TRUE, FALSE, <<>>)}
        \cup {MkReport(REPORT_ID_CONFIG, TRUE, TRUE, d) : d \in DataSet}

ReportSeqs == UNION {[1..n -> ReportSet] : n \in 0..MaxReports}

MkDevice(open_ok, send_ok, reports) ==
    [open_ok |-> open_ok, send_ok |-> send_ok, reports |-> reports]

SaveDevices == {MkDevice(o, s, <<>>) : o \in BOOLEAN, s \in [1..2 -> BOOLEAN]}

LoadDevices == {MkDevice(o, <<TRUE, TRUE>>, r) : o \in BOOLEAN, r \in ReportSeqs}

(***************************************************************************)
(* State.                                                                  *)
(*   call            the last call of load_from_device / save_to_device:   *)
(*                   its arguments, its result, what it did to the device, *)
(*                   and the state of the window when it was made          *)
(*   hw              the record each device holds                          *)
(*   attached        the devices get_devices() finds                       *)
(*   devices, selected   self.devices and the selection of devices_list    *)
(*   forced          the calls of __do_forced_selection__ wx.CallAfter has  *)
(*                   pending                                               *)
(*   loading, save_button, load_button, status, debounce_enabled           *)
(*   ctrl            the controls of the main window                       *)
(*   remap, keycodes, rgb_config   the values the sub-windows edit         *)
(*   remapper_frame, keybinds_frame, rgb_frame   the sub-windows, or None  *)
(*   timers          the calls wx.CallLater has pending                    *)
(*   form_src        the value the controls were last populated from and   *)
(*                   not edited since (None otherwise)                     *)
(*   remap_src       where self.remap comes from: the loaded value, and    *)
(*                   whether through the remapper window                   *)
(*   frame_src       the loaded value the open remapper window was opened  *)
(*                   on (None once self.remap is populated anew)           *)
(*   rgb_src         where self.rgb_config comes from: the loaded value,   *)
(*                   and whether through the RGB window                    *)
(*   rgb_frame_src   rgb_src as the open RGB window was opened on it       *)
(*                   (None once the window is edited)                      *)
(*   probe           the last run of __extract_conf_from_gui__             *)
(*   press           the last press of Load or Save                        *)
(***************************************************************************)
VARIABLES call, hw, attached, devices, selected, forced, loading, save_button,
          load_button,
          status, debounce_enabled, ctrl, remap, keycodes, rgb_config,
          remapper_frame, keybinds_frame, rgb_frame, timers,
          form_src, remap_src, frame_src, rgb_src, rgb_frame_src, probe, press

ioVars == <<call, hw, attached>>

listVars == <<devices, selected, forced>>

pendVars == <<loading, save_button, load_button, status, timers>>

formVars == <<debounce_enabled, ctrl, form_src>>

remapVars == <<remap, remapper_frame, remap_src, frame_src>>

keyVars == <<keycodes, keybinds_frame>>

rgbVars == <<rgb_config, rgb_frame, rgb_src, rgb_frame_src>>

subVars == <<remapVars, keyVars, rgbVars>>

uiVars == <<hw, attached, listVars, pendVars, formVars, subVars, probe, press>>

vars == <<call, uiVars>>

MaxTimers == 2

MaxForced == 1

NoCall == [fn |-> "idle", conf |-> None, remap |-> <<>>, device |-> None,
           done |-> TRUE, ret |-> None, io |-> <<>>, during |-> 0, buttons |-> FALSE,
           by |-> "", target |-> 0, chosen |-> 0]

\* a call that has its arguments and has not run yet
Pending(fn, conf, rm, device) ==
    [fn |-> fn, conf |-> conf, remap |-> rm, device |-> device,
     done |-> FALSE, ret |-> None, io |-> <<>>, during |-> 0, buttons |-> FALSE,
     by |-> "", target |-> 0, chosen |-> 0]

Finished(c, r) == [c EXCEPT !.done = TRUE, !.ret = r.ret, !.io = r.io]

\* a call made from a handler: pending operations and the buttons at that time
MadeFrom(c, during, buttons) == [c EXCEPT !.during = during, !.buttons = buttons]

\* the handler a call is made in, the device it is made on and the device
\* that is selected in devices_list at that time (0 without a selection)
IssuedBy(c, handler, target, chosen) ==
    [c EXCEPT !.by = handler, !.target = target, !.chosen = chosen]

\* the value __extract_conf_from_gui__ composes from remap and an LED count
ConfOfRemap(rm, num_leds) ==
    [BaseConf EXCEPT !.remap_start_sel = RemapByte(rm[1], rm[2]),
                     !.remap_b8_b9 = RemapByte(rm[3], rm[4]),
                     !.rgb_num_leds = num_leds]

\* the controls as MainWindowFrame.__init__ creates them
InitCtrl == [
    title_ctrl |-> <<>>,
    multitap_check |-> FALSE, qe1_invert_check |-> FALSE, debounce_check |-> FALSE,
    mode_switch_check |-> FALSE, led_off_check |-> FALSE, ws2812b_check |-> FALSE,
    poll_rate_ctrl |-> 0, qe1_tt_ctrl |-> 0, input_mode_ctrl |-> 0,
    led_mode_ctrl |-> 0, debounce_ctrl |-> 2, qe1_sens_ctrl |-> 0 ]

\* ButtonsEnabled without the test of self.loading
ButtonsEnabled_whatever_loading(sel, ld) == sel >= 0

\* __evaluate_save_load_buttons__
ButtonsEnabled(sel, ld) == sel >= 0 /\ ~ld

\* the window after MainWindowFrame.__init__, with the devices of h attached
MainInit(h) ==
    /\ hw = h
    /\ attached = 1..Len(h)
    /\ devices = [i \in 1..Len(h) |-> i]
    /\ selected = IF Len(h) > 0 THEN 0 ELSE NOT_FOUND
    /\ forced = <<>>
    /\ loading = FALSE
    /\ save_button = (Len(h) > 0)
    /\ load_button = (Len(h) > 0)
    /\ status = "Found device(s)."
    /\ debounce_enabled = FALSE
    /\ ctrl = InitCtrl
    /\ remap = DEFAULT_EFFECTOR_MAPPING
    /\ keycodes = None
    /\ rgb_config = None
    /\ remapper_frame = None
    /\ keybinds_frame = None
    /\ rgb_frame = None
    /\ timers = <<>>
    /\ form_src = None
    /\ remap_src = None
    /\ frame_src = None
    /\ rgb_src = None
    /\ rgb_frame_src = None
    /\ probe = None
    /\ press = None

(***************************************************************************)
(* CodecSpec: the two transactions applied to arguments drawn from the     *)
(* sets above.                                                             *)
(***************************************************************************)
CodecInit ==
    /\ call \in {Pending("save_to_device", c, <<>>, d) :
                    c \in ConfInputs, d \in SaveDevices}
          \cup {Pending("save_to_device", ConfOfRemap(r, n), r, d) :
                   r \in RemapInputs, d \in SaveDevices,
                   n \in {ARCIN_RGB_NUM_LEDS_MAX, ARCIN_RGB_NUM_LEDS_MAX + 1}}
          \cup {Pending("load_from_device", None, <<>>, d) : d \in LoadDevices}
    /\ MainInit(<<>>)

\* save_to_device(device, conf)
CallSave ==
    /\ call.fn = "save_to_device"
    /\ ~call.done
    /\ call' = Finished(call, save_to_device(call.device, call.conf))
    /\ UNCHANGED uiVars

\* load_from_device(device)
CallLoad ==
    /\ call.fn = "load_from_device"
    /\ ~call.done
    /\ call' = Finished(call, load_from_device(call.device))
    /\ UNCHANGED uiVars

CodecNext == CallSave \/ CallLoad

CodecSpec == CodecInit /\ [][CodecNext]_vars

(***************************************************************************)
(* The handlers of the main window.  A handler runs to its end, or to the  *)
(* statement that raises; wx then drops the exception and the window       *)
(* carries on with what the handler had done by then.                      *)
(***************************************************************************)

\* the device behind self.devices[index] as one transaction finds it
DeviceView(d, open_ok, get_ok, send_ok) ==
    MkDevice(open_ok, send_ok, <<MkReport(REPORT_ID_CONFIG, get_ok, TRUE, hw[d])>>)

\* whether device.open() can succeed: not once the device is unplugged
OpenOutcomes(d) == IF d \in attached THEN BOOLEAN ELSE {FALSE}

\* the record of a device after the reports of io reached it
RecordAfter(record, io) ==
    IF \E k \in 1..Len(io) : io[k].op = "send" /\ io[k].ok
                                /\ io[k].data[1] = REPORT_ID_CONFIG
    THEN LET k == CHOOSE j \in 1..Len(io) : io[j].op = "send" /\ io[j].ok
                                               /\ io[j].data[1] = REPORT_ID_CONFIG
         IN Take(Drop(io[k].data, 4), REPORT_SIZE_BYTE)
    ELSE record

\* self.remap, self.keycodes, self.rgb_config after the three close_*_window()
RemapClosed == IF remapper_frame # None THEN extract_remap_from_ui(remapper_frame)
               ELSE remap

KeycodesClosed == IF keybinds_frame # None THEN extract_keycodes_from_ui(keybinds_frame)
                  ELSE keycodes

\* RgbClosed that forgets rgb_config when there is no window to close
RgbClosed_forgetting == IF rgb_frame # None THEN extract_from_ui(rgb_frame) ELSE None

RgbClosed == IF rgb_frame # None THEN extract_from_ui(rgb_frame) ELSE rgb_config

\* where rgb_config comes from once the RGB window is closed
Via(src, how) == IF src = None THEN None ELSE [conf |-> src.conf, via |-> how]

\* where self.remap comes from once the remapper window is closed
RemapSrcClosed ==
    IF remapper_frame = None THEN remap_src
    ELSE IF frame_src = None THEN None
    ELSE [conf |-> frame_src, via |-> "window"]

RgbSrcClosed == IF rgb_frame # None THEN Via(rgb_frame_src, "window") ELSE rgb_src

CloseWindows ==
    /\ remap' = RemapClosed
    /\ keycodes' = KeycodesClosed
    /\ rgb_config' = RgbClosed
    /\ remapper_frame' = None
    /\ keybinds_frame' = None
    /\ rgb_frame' = None
    /\ remap_src' = RemapSrcClosed
    /\ frame_src' = None
    /\ rgb_src' = RgbSrcClosed
    /\ rgb_frame_src' = None

\* a timer that does not carry the value to its handler
Timer_without_conf(fn, device, conf) == [fn |-> fn, device |-> device, conf |-> None]

Timer(fn, device, conf) == [fn |-> fn, device |-> device, conf |-> conf]

Without(s, i) == Take(s, i - 1) \o Drop(s, i)

\* the device selected in devices_list, 0 without a selection
Chosen == IF selected >= 0 THEN devices[selected + 1] ELSE 0

\* SaveTarget that takes the device selected when the timer fires
SaveTarget_selected_now(i) == IF selected >= 0 THEN devices[selected + 1]
                              ELSE timers[i].device

\* the device on_save_deferred is called with: the one on_save handed to
\* wx.CallLater
SaveTarget(i) == timers[i].device

\* a press of Load or Save: its handler, the value it extracted and whether
\* the final status of the operation has been set
Press(fn, conf, final) == [fn |-> fn, conf |-> conf, final |-> final]

Finalised(p, fn) == IF p # None /\ p.fn = fn THEN [p EXCEPT !.final = TRUE] ELSE p

on_load ==
    /\ load_button
    /\ Len(timers) < MaxTimers
    /\ CloseWindows
    /\ UNCHANGED <<listVars, formVars, probe, hw, attached>>
    /\ IF selected < 0
       THEN /\ press' = Press("on_load", None, FALSE)
            /\ UNCHANGED <<call, pendVars>>
       ELSE \E open_ok \in OpenOutcomes(devices[selected + 1]), get_ok \in BOOLEAN :
            \E view \in {DeviceView(devices[selected + 1], open_ok, get_ok,
                                    <<TRUE, TRUE>>)} :
            \E r \in {load_from_device(view)} :
              LET device == devices[selected + 1]
              IN /\ call' = IssuedBy(MadeFrom(Finished(Pending("load_from_device", None,
                                                                <<>>, view), r),
                                              Len(timers), save_button \/ load_button),
                                     "on_load", device, device)
                 /\ IF r.ret # None
                    THEN /\ loading' = TRUE
                         /\ save_button' = ButtonsEnabled(selected, TRUE)
                         /\ load_button' = ButtonsEnabled(selected, TRUE)
                         /\ status' = "Reading from device..."
                         /\ timers' = Append(timers,
                                             Timer("on_load_deferred", device, r.ret))
                         /\ press' = Press("on_load", None, FALSE)
                    ELSE /\ loading' = FALSE
                         /\ save_button' = ButtonsEnabled(selected, FALSE)
                         /\ load_button' = ButtonsEnabled(selected, FALSE)
                         /\ status' = "Error while trying to read from device."
                         /\ press' = Press("on_load", None, TRUE)
                         /\ UNCHANGED timers

on_load_deferred ==
    \E i \in 1..Len(timers) :
        /\ timers[i].fn = "on_load_deferred"
        /\ LET conf == timers[i].conf
           IN /\ ctrl' = PopulateCtrl(conf)
              /\ keycodes' = PyList(conf.keycodes.v)
              /\ remap' = PopulateRemap(conf)
              /\ rgb_config' = PopulateRgbConfig(conf)
              /\ form_src' = conf
              /\ remap_src' = [conf |-> conf, via |-> "load"]
              /\ rgb_src' = [conf |-> conf, via |-> "load"]
              /\ debounce_enabled' = Has(conf.flags, ARCIN_CONFIG_FLAG_DEBOUNCE)
        /\ loading' = FALSE
        /\ save_button' = ButtonsEnabled(selected, FALSE)
        /\ load_button' = ButtonsEnabled(selected, FALSE)
        /\ status' = "Loaded from device."
        /\ timers' = Without(timers, i)
        /\ frame_src' = None
        /\ press' = Finalised(press, "on_load")
        /\ UNCHANGED <<ioVars, listVars, remapper_frame, keybinds_frame, rgb_frame,
                       rgb_frame_src, probe>>

\* rgb_num_leds as lines 689-697 of __extract_conf_from_gui__ set it
ExtractNumLeds(rgb) == IF rgb # None THEN rgb.num_leds ELSE ARCIN_RGB_NUM_LEDS_MAX

on_save ==
    /\ save_button
    /\ Len(timers) < MaxTimers
    /\ CloseWindows
    /\ UNCHANGED <<ioVars, listVars, formVars>>
    /\ IF selected < 0
       THEN /\ press' = Press("on_save", None, FALSE)
            /\ UNCHANGED <<pendVars, probe>>
       ELSE \E x \in {extract_conf_from_gui(ctrl, KeycodesClosed, RemapClosed,
                                              RgbClosed)} :
               /\ probe' = [src |-> form_src, flags |-> ExtractFlags(ctrl),
                            qe1_sens |-> ExtractSens(ctrl),
                            qe1_sens_ctrl |-> ctrl.qe1_sens_ctrl,
                            remap |-> RemapClosed,
                            remap_src |-> RemapSrcClosed,
                            device |-> devices[selected + 1],
                            rgb_src |-> RgbSrcClosed,
                            rgb_num_leds |-> ExtractNumLeds(RgbClosed),
                            raised |-> x.exc]
               /\ press' = Press("on_save", x.val, FALSE)
               /\ IF x.exc
                  THEN UNCHANGED pendVars
                  ELSE /\ loading' = TRUE
                       /\ save_button' = ButtonsEnabled(selected, TRUE)
                       /\ load_button' = ButtonsEnabled(selected, TRUE)
                       /\ status' = "Saving to device..."
                       /\ timers' = Append(timers,
                                           Timer("on_save_deferred",
                                                 devices[selected + 1], x.val))

on_save_deferred ==
    \E i \in 1..Len(timers) :
        /\ timers[i].fn = "on_save_deferred"
        /\ \E open_ok \in OpenOutcomes(timers[i].device), send_ok \in [1..2 -> BOOLEAN] :
            \E view \in {DeviceView(timers[i].device, open_ok, TRUE, send_ok)} :
            \E r \in {save_to_device(view, timers[i].conf)} :
              LET device == SaveTarget(i)
              IN /\ call' = IssuedBy(MadeFrom(Finished(Pending("save_to_device",
                                                                timers[i].conf, <<>>,
                                                                view), r),
                                              Len(timers) - 1,
                                              ButtonsEnabled(selected, FALSE)),
                                     "on_save_deferred", device, Chosen)
                 /\ hw' = [hw EXCEPT ![device] = RecordAfter(hw[device], r.io)]
                 /\ status' = IF r.ret[1] THEN "Saved to device."
                              ELSE "Error: " \o r.ret[2]
        /\ loading' = FALSE
        /\ save_button' = ButtonsEnabled(selected, FALSE)
        /\ load_button' = ButtonsEnabled(selected, FALSE)
        /\ timers' = Without(timers, i)
        /\ press' = Finalised(press, "on_save")
        /\ UNCHANGED <<attached, listVars, formVars, subVars, probe>>

\* RemapperWindowFrame(remap=self.remap): populate_ui_from_remap writes the
\* defaults into self.remap itself
on_remapper_button ==
    /\ remapper_frame = None
    /\ remapper_frame' = RemapperFrame(remap)
    /\ remap' = RemapDefaulted(remap)
    /\ frame_src' = IF remap_src # None /\ remap_src.via = "load" THEN remap_src.conf
                    ELSE None
    /\ UNCHANGED <<ioVars, listVars, pendVars, formVars, keyVars, rgbVars,
                   remap_src, probe, press>>

on_remapper_frame_closed ==
    /\ remapper_frame # None
    /\ remap' = extract_remap_from_ui(remapper_frame)
    /\ remapper_frame' = None
    /\ remap_src' = RemapSrcClosed
    /\ frame_src' = None
    /\ UNCHANGED <<ioVars, listVars, pendVars, formVars, keyVars, rgbVars,
                   probe, press>>

on_keybinds_button ==
    /\ keybinds_frame = None
    /\ keybinds_frame' = KeybindsFrame(keycodes)
    /\ UNCHANGED <<ioVars, listVars, pendVars, formVars, remapVars, keycodes, rgbVars,
                   probe, press>>

on_keybinds_frame_closed ==
    /\ keybinds_frame # None
    /\ keycodes' = extract_keycodes_from_ui(keybinds_frame)
    /\ keybinds_frame' = None
    /\ UNCHANGED <<ioVars, listVars, pendVars, formVars, remapVars, rgbVars,
                   probe, press>>

on_rgb_button ==
    /\ rgb_frame = None
    /\ rgb_frame' = RgbFrame(rgb_config)
    /\ rgb_frame_src' = rgb_src
    /\ UNCHANGED <<ioVars, listVars, pendVars, formVars, remapVars, keyVars,
                   rgb_config, rgb_src, probe, press>>

on_rgb_frame_closed ==
    /\ rgb_frame # None
    /\ rgb_config' = extract_from_ui(rgb_frame)
    /\ rgb_frame' = None
    /\ rgb_src' = Via(rgb_frame_src, "window")
    /\ rgb_frame_src' = None
    /\ UNCHANGED <<ioVars, listVars, pendVars, formVars, remapVars, keyVars,
                   probe, press>>

\* a click on another item: on_device_list_deselect for the item that had the
\* selection, then on_device_list_select for the item that has it now
on_device_list_select ==
    \E index \in 0..(Len(devices) - 1) :
        /\ index # selected
        /\ selected' = index
        /\ save_button' = ButtonsEnabled(index, loading)
        /\ load_button' = ButtonsEnabled(index, loading)
        /\ IF selected >= 0
           THEN /\ Len(forced) < MaxForced
                /\ forced' = Append(forced, selected)
           ELSE UNCHANGED forced
        /\ UNCHANGED <<ioVars, devices, loading, status, timers, formVars,
                       subVars, probe, press>>

\* a click that leaves no item selected; the selection is put back later
on_device_list_deselect ==
    /\ selected >= 0
    /\ Len(forced) < MaxForced
    /\ selected' = NOT_FOUND
    /\ save_button' = ButtonsEnabled(NOT_FOUND, loading)
    /\ load_button' = ButtonsEnabled(NOT_FOUND, loading)
    /\ forced' = Append(forced, selected)
    /\ UNCHANGED <<ioVars, devices, loading, status, timers, formVars, subVars,
                   probe, press>>

\* __do_forced_selection__(index): Select(index) of an item that is there
\* raises on_device_list_select
do_forced_selection ==
    /\ forced # <<>>
    /\ forced' = Tail(forced)
    /\ LET index == Head(forced)
       IN IF selected < 0 /\ index < Len(devices)
          THEN /\ selected' = index
               /\ save_button' = ButtonsEnabled(index, loading)
               /\ load_button' = ButtonsEnabled(index, loading)
          ELSE UNCHANGED <<selected, save_button, load_button>>
    /\ UNCHANGED <<ioVars, devices, loading, status, timers, formVars, subVars,
                   probe, press>>

\* get_devices(): the attached devices, in the order of the bus
get_devices ==
    CHOOSE s \in [1..Cardinality(attached) -> attached] :
        \A i, j \in 1..Cardinality(attached) : i < j => s[i] < s[j]

\* on_refresh: __populate_device_list__
on_refresh ==
    /\ devices' = get_devices
    /\ selected' = IF Len(get_devices) > 0 THEN 0 ELSE NOT_FOUND
    /\ save_button' = ButtonsEnabled(selected', loading)
    /\ load_button' = ButtonsEnabled(selected', loading)
    /\ status' = "Found device(s)."
    /\ UNCHANGED <<ioVars, forced, loading, timers, formVars, subVars, probe, press>>

\* on_debounce_check: the user ticks or unticks the debounce box
on_debounce_check ==
    /\ ctrl' = [ctrl EXCEPT !.debounce_check = ~ctrl.debounce_check]
    /\ debounce_enabled' = ~ctrl.debounce_check
    /\ form_src' = None
    /\ UNCHANGED <<ioVars, listVars, pendVars, subVars, probe, press>>

\* a device is plugged in or pulled out
Plug ==
    \E d \in 1..Len(hw) :
        /\ d \notin attached
        /\ attached' = attached \cup {d}
        /\ UNCHANGED <<call, hw, listVars, pendVars, formVars, subVars, probe, press>>

Unplug ==
    \E d \in attached :
        /\ attached' = attached \ {d}
        /\ UNCHANGED <<call, hw, listVars, pendVars, formVars, subVars, probe, press>>

(***************************************************************************)
(* FormSpec: one device, holding any record of FormRecords, is loaded into *)
(* the form, the remapper window is opened and closed, and Save extracts   *)
(* the form again.                                                         *)
(***************************************************************************)
FirmwareBase == [BaseConf EXCEPT !.label = PyBytes(LabelOfLen(5))]

\* the flag words: each defined bit alone, no bit, an undefined bit, pairs
FormFlags ==
    {Shl(1, b) : b \in DefinedFlagBits}
        \cup {0, Shl(1, 2),
              ARCIN_CONFIG_FLAG_DIGITAL_TT_ENABLE + ARCIN_CONFIG_FLAG_ANALOG_TT_FORCE_ENABLE,
              ARCIN_CONFIG_FLAG_KEYBOARD_ENABLE + ARCIN_CONFIG_FLAG_JOYINPUT_DISABLE,
              ARCIN_CONFIG_FLAG_TT_LED_REACTIVE + ARCIN_CONFIG_FLAG_TT_LED_HID}

\* every value of SENS_OPTIONS and values that are none of them
FormSens == {SENS_OPTIONS[i][2] : i \in 1..Len(SENS_OPTIONS)} \cup {5, 1, -1, 127, -128}

\* every nibble 0..15 in every slot
FormRemaps ==
    {<<n, (n + 1) % 16, (n + 2) % 16, (n + 3) % 16>> : n \in 0..15}
        \cup {<<0, 0, 0, 0>>}

\* LED counts: none, some, the maximum, more than the maximum
FormNumLeds == {0, 1, ARCIN_RGB_NUM_LEDS_MAX, ARCIN_RGB_NUM_LEDS_MAX + 1}

FormConfs ==
    {[FirmwareBase EXCEPT !.flags = f] : f \in FormFlags}
        \cup {[FirmwareBase EXCEPT !.rgb_num_leds = n] : n \in FormNumLeds}
        \cup {[FirmwareBase EXCEPT !.qe1_sens = q] : q \in FormSens}
        \cup {[FirmwareBase EXCEPT !.remap_start_sel = RemapByte(r[1], r[2]),
                                   !.remap_b8_b9 = RemapByte(r[3], r[4])] :
                 r \in FormRemaps}

FormRecords == {DeviceRecord(c) : c \in FormConfs}

FormInit ==
    /\ call = NoCall
    /\ \E record \in FormRecords : MainInit(<<record>>)

FormNext ==
    \/ on_load
    \/ on_load_deferred
    \/ on_save
    \/ on_save_deferred
    \/ on_remapper_button
    \/ on_remapper_frame_closed
    \/ on_rgb_button
    \/ on_rgb_frame_closed

FormSpec == FormInit /\ [][FormNext]_vars

(***************************************************************************)
(* Spec: the main window with one or two devices, under every order of the *)
(* user's actions, the timers and the devices coming and going.  The     *)
(* sub-windows are in FormSpec.                                            *)
(***************************************************************************)
\* two boards set up alike: both hold the record of FirmwareBase, whose flags
\* word is ARCIN_CONFIG_FLAG_DEBOUNCE
MainRecords ==
    <<DeviceRecord(FirmwareBase),
      DeviceRecord([FirmwareBase EXCEPT !.flags = ARCIN_CONFIG_FLAG_DEBOUNCE])>>

Init ==
    /\ call = NoCall
    /\ \E n \in 1..Len(MainRecords) : MainInit(Take(MainRecords, n))

Next ==
    \/ on_load
    \/ on_load_deferred
    \/ on_save
    \/ on_save_deferred
    \/ on_device_list_select
    \/ on_device_list_deselect
    \/ do_forced_selection
    \/ on_refresh
    \/ on_debounce_check
    \/ Plug
    \/ Unplug

Spec == Init /\ [][Next]_vars

(***************************************************************************)
(* What a finished call did.                                               *)
(***************************************************************************)
SaveDone == call.fn = "save_to_device" /\ call.done

LoadDone == call.fn = "load_from_device" /\ call.done

IsSend(e) == e.op = "send"

\* the reports handed to send_feature_report, in order
Sends(io) == SelectSeq(io, IsSend)

IsConfigSend(e) == e.op = "send" /\ e.data # RESTART_REPORT

ConfigSends(io) == SelectSeq(io, IsConfigSend)

\* every field within the range its record field can represent
InRange(conf) ==
    /\ conf.label.t = "str"
    /\ conf.keycodes.t = "bytes"
    /\ conf.flags >= 0
    /\ \A f \in SByteFields : conf[f] >= -128 /\ conf[f] <= 127
    /\ \A f \in UByteFields \cup {"remap_start_sel", "remap_b8_b9", "rgb_num_leds"} :
          conf[f] >= 0 /\ conf[f] <= 255

DeviceHealthy(device) == device.open_ok /\ device.send_ok[1] /\ device.send_ok[2]

\* the record carried by a configuration report, decoded as parse_device does
DecodeSent(feature) ==
    parse_device(MkReport(REPORT_ID_CONFIG, TRUE, TRUE, Drop(feature, 4)))

(***************************************************************************)
(* C1: save_to_device on a configuration whose every field is within the   *)
(* range of its record field, on a device whose open and writes succeed,   *)
(* sends the 64-byte configuration report, then the restart report         *)
(* [0xb0, 0x20], and returns (True, "Success").                            *)
(***************************************************************************)
C1_SaveSucceeds ==
    (SaveDone /\ InRange(call.conf) /\ DeviceHealthy(call.device)) =>
        /\ call.ret = <<TRUE, "Success">>
        /\ Len(Sends(call.io)) = 2
        /\ Len(Sends(call.io)[1].data) = FEATURE_LEN
        /\ Sends(call.io)[1].data[1] = REPORT_ID_CONFIG
        /\ Sends(call.io)[2].data = RESTART_REPORT

\* what the code does on those inputs
C1_FormatErrorOnValidInput ==
    /\ SaveDone /\ InRange(call.conf) /\ DeviceHealthy(call.device)
    /\ call.conf = BaseConf
    /\ call.ret = <<FALSE, "Format error">>
    /\ call.io = <<>>

(***************************************************************************)
(* C2: round trip.  For a configuration value whose fields are all in      *)
(* their valid ranges, decoding (parse_device's unpack) the payload that   *)
(* save_to_device encodes for it yields a value equal to the original in   *)
(* every field.                                                            *)
(***************************************************************************)
ValidConf(conf) ==
    /\ InRange(conf)
    /\ Len(conf.label.v) <= 11
    /\ conf.rgb_num_leds <= ARCIN_RGB_NUM_LEDS_MAX

C2_RoundTrip ==
    (SaveDone /\ ValidConf(call.conf) /\ DeviceHealthy(call.device)) =>
        /\ Len(ConfigSends(call.io)) = 1
        /\ DecodeSent(ConfigSends(call.io)[1].data) = Return(call.conf)

(***************************************************************************)
(* C3: every configuration report handed to send_feature_report is 64      *)
(* entries long, with byte 0 = 0xc0, byte 1 = 0, byte 2 = the length of    *)
(* the encoded payload, byte 3 = 0 and the payload from byte 4 on; the     *)
(* encoded payload is 60 bytes long whatever the field contents.           *)
(***************************************************************************)
C3_ReportLayout ==
    (SaveDone /\ InRange(call.conf) /\ call.device.open_ok) =>
        LET packed == PackConf(call.conf)
        IN /\ packed.ok
           /\ Len(packed.bytes) = REPORT_SIZE_BYTE
           /\ Len(ConfigSends(call.io)) = 1
           /\ \A k \in 1..Len(ConfigSends(call.io)) :
                 LET feature == ConfigSends(call.io)[k].data
                 IN /\ Len(feature) = FEATURE_LEN
                    /\ feature[1] = REPORT_ID_CONFIG
                    /\ feature[2] = 0
                    /\ feature[3] = Len(packed.bytes)
                    /\ feature[4] = 0
                    /\ SubSeq(feature, 5, 4 + Len(packed.bytes)) = packed.bytes

(***************************************************************************)
(* C4: truncation.  Encoding a configuration whose label is longer than    *)
(* 11 characters and decoding the result yields a label equal to the       *)
(* first 11 characters of the input.                                       *)
(***************************************************************************)
C4_LabelTruncated ==
    (SaveDone /\ InRange(call.conf) /\ Len(call.conf.label.v) > 11
        /\ DeviceHealthy(call.device)) =>
        /\ Len(ConfigSends(call.io)) = 1
        /\ LET decoded == DecodeSent(ConfigSends(call.io)[1].data)
           IN /\ ~decoded.exc
              /\ UpToNul(decoded.val.label.v) = Utf8(Take(call.conf.label.v, 11))

(***************************************************************************)
(* C5: short-buffer rejection.  When the data of a configuration report    *)
(* is shorter than the record, decoding it fails and load_from_device      *)
(* returns None, not a partially filled configuration.                     *)
(***************************************************************************)
ShortConfigReport(r) ==
    /\ r.report_id = REPORT_ID_CONFIG
    /\ r.get_ok
    /\ r.has_page
    /\ Len(r.value) < calcsize(STRUCT_FMT_EX)

C5_ShortBufferRejected ==
    LoadDone =>
        \A i \in 1..Len(call.device.reports) :
            ShortConfigReport(call.device.reports[i]) =>
                /\ parse_device(call.device.reports[i]).exc
                /\ call.ret = None

\* a device that opens and whose only report carries 10 bytes has been read
C5_Witness ==
    /\ LoadDone
    /\ call.device.open_ok
    /\ Len(call.device.reports) = 1
    /\ ShortConfigReport(call.device.reports[1])
    /\ Len(call.device.reports[1].value) = 10
    /\ call.ret = None

(***************************************************************************)
(* C6: rejection.  Encoding fails with a format error, and nothing is      *)
(* written to the device, whenever one of the four remap nibbles is 16 or  *)
(* greater or rgb_num_leds exceeds 60.                                     *)
(***************************************************************************)
NibbleTooBig(rm) == \E i \in 1..Len(rm) : rm[i] >= 16

C6_OutOfRangeRejected ==
    (SaveDone /\ (NibbleTooBig(call.remap)
                    \/ call.conf.rgb_num_leds > ARCIN_RGB_NUM_LEDS_MAX)) =>
        /\ call.ret = <<FALSE, "Format error">>
        /\ Sends(call.io) = <<>>

\* both cases have been saved to a healthy device: a low nibble of 16, which
\* fits the byte it is or-ed into, and 61 LEDs
C6_Witness ==
    /\ SaveDone
    /\ DeviceHealthy(call.device)
    /\ call.remap = <<1, 16, 4, 4>>
    /\ call.conf.remap_start_sel <= 255
    /\ call.conf.rgb_num_leds = ARCIN_RGB_NUM_LEDS_MAX + 1
    /\ call.ret = <<FALSE, "Format error">>
    /\ call.io = <<>>
(***************************************************************************)
(* C12 as stated: a configuration report whose data is the 20-byte or the  *)
(* 44-byte layout is decoded into a configuration value, not rejected.     *)
(***************************************************************************)
OlderLayout(r) ==
    /\ r.report_id = REPORT_ID_CONFIG
    /\ r.get_ok
    /\ r.has_page
    /\ Len(r.value) \in {20, 44}

ClosedAfterOpen(io) ==
    /\ \A i \in 1..Len(io) :
          io[i].op = "open" => \E j \in (i + 1)..Len(io) : io[j].op = "close"
    /\ io # <<>> => io[Len(io)].op = "close"

C13_AlwaysClosed == (SaveDone \/ LoadDone) => ClosedAfterOpen(call.io)

\* a load whose report read raised has closed the device
C13_Witness ==
    /\ LoadDone
    /\ call.ret = None
    /\ call.io = <<IoEv("open", TRUE, <<>>), IoEv("get", FALSE, <<>>),
                   IoEv("close", TRUE, <<>>)>>

(***************************************************************************)
(* C18: whenever save_to_device returns a failure, the device accepted no  *)
(* configuration report during that call.                                  *)
(***************************************************************************)
Accepted(io) == {i \in 1..Len(io) : io[i].op = "send" /\ io[i].ok}

C18_FailureLeavesDevice ==
    (SaveDone /\ ~call.ret[1]) =>
        \A i \in Accepted(call.io) : call.io[i].data = RESTART_REPORT

C18_Witness ==
    /\ SaveDone
    /\ call.conf = BaseConf
    /\ call.device = MkDevice(TRUE, <<TRUE, FALSE>>, <<>>)
    /\ ~call.ret[1]
    /\ Accepted(call.io) = {}

(***************************************************************************)
(* C19: in every save the restart report is sent at most once and only     *)
(* after the configuration report was accepted in the same call; when the  *)
(* encoding, the opening or the configuration write fails, it is not sent. *)
(***************************************************************************)
Restarts(io) == {i \in 1..Len(io) : io[i].op = "send" /\ io[i].data = RESTART_REPORT}

C19_RestartAfterConfig ==
    SaveDone =>
        /\ Cardinality(Restarts(call.io)) <= 1
        /\ \A i \in Restarts(call.io) :
              \E j \in Accepted(call.io) : j < i /\ call.io[j].data # RESTART_REPORT
        /\ (call.ret = <<FALSE, "Format error">>) => (Restarts(call.io) = {})

C19_Witness ==
    /\ SaveDone
    /\ call.conf = [BaseConf EXCEPT !.rgb_speed = 128]
    /\ DeviceHealthy(call.device)
    /\ call.ret = <<FALSE, "Format error">>
    /\ Restarts(call.io) = {}

(***************************************************************************)
(* What the form shows of a loaded value and what Save extracts from it.   *)
(***************************************************************************)
\* Save has run __extract_conf_from_gui__ on a form that shows a loaded value
Extracted == probe # None /\ probe.src # None

SingleFlag(flags) == \E b \in DefinedFlagBits : flags = 2 ^ b

SensValues == {SENS_OPTIONS[i][2] : i \in 1..Len(SENS_OPTIONS)}

\* the place of a ratio in SENS_OPTIONS, counted from 0
SensPlace(name) == (CHOOSE i \in 1..Len(SENS_OPTIONS) : SENS_OPTIONS[i][1] = name) - 1

\* the four nibbles a record stores: Start, Select, Button8, Button9
StoredNibbles(conf) == <<conf.remap_start_sel \div 16, conf.remap_start_sel % 16,
                         conf.remap_b8_b9 \div 16, conf.remap_b8_b9 % 16>>

RemapChoices(frame) == <<frame.remap_start_ctrl, frame.remap_select_ctrl,
                         frame.remap_b8_ctrl, frame.remap_b9_ctrl>>

C9_FallsBackToOneToFour ==
    (form_src # None /\ form_src.qe1_sens \notin SensValues) =>
        ctrl.qe1_sens_ctrl = SensPlace("1:4")

(***************************************************************************)
(* C10: when the remapper window is opened on a loaded value, a slot whose *)
(* stored nibble is 0 has its identity default (Start 1, Select 2,         *)
(* Button8 3, Button9 4) in self.remap and selected in its choice, and a   *)
(* slot whose stored nibble is not 0 has that nibble in self.remap.        *)
(***************************************************************************)
C10_DefaultSubstitution ==
    (remapper_frame # None /\ frame_src # None) =>
        \A i \in 1..4 :
            LET n == StoredNibbles(frame_src)[i]
            IN IF n = 0
               THEN /\ remap[i] = i
                    /\ RemapChoices(remapper_frame)[i] = i - 1
               ELSE remap[i] = n

C10_Witness ==
    /\ remapper_frame # None
    /\ frame_src # None
    /\ StoredNibbles(frame_src) = <<14, 15, 0, 1>>
    /\ remap = <<14, 15, 3, 1>>
    /\ remapper_frame.remap_b8_ctrl = 2

(***************************************************************************)
(* C11 as stated: after loading a value with rgb_num_leds = 0, the LED     *)
(* count the RGB window shows is 60, and any LED count extracted for       *)
(* saving is 60.                                                           *)
(***************************************************************************)
StoredZeroLeds(src) == src # None /\ src.conf.rgb_num_leds = 0

DeferredOf(fn) == IF fn = "on_load" THEN "on_load_deferred" ELSE "on_save_deferred"

Scheduled(fn) == \E i \in 1..Len(timers) : timers[i].fn = fn

\* C14: at most one load or save is outstanding at any time: while a deferred
\* handler is pending no other is scheduled, and every call of
\* load_from_device or save_to_device is made with no other operation
\* pending, whatever the user presses, selects or refreshes in between.
C14_OneOutstanding ==
    /\ Len(timers) <= 1
    /\ call.fn # "idle" => call.during = 0

\* an operation is pending after Refresh and a change of the selection
C14_Witness ==
    /\ Len(timers) = 1
    /\ status = "Found device(s)."
    /\ selected = 1
    /\ Len(devices) = 2

\* C15: Save and Load are disabled from the press until the operation's call
\* of load_from_device or save_to_device and the handling of its result are
\* over: with a deferred handler pending, and at every such call, neither
\* button is enabled.
C15_DisabledThroughout ==
    /\ timers # <<>> => ~save_button /\ ~load_button
    /\ call.fn # "idle" => ~call.buttons

\* C16: every press of Load or Save runs to its end: either its final status
\* has been set and loading is False again, or its deferred handler is
\* scheduled and will set them.
C16_RunsToCompletion ==
    press # None =>
        \/ press.final /\ ~(loading /\ timers = <<>>)
        \/ loading /\ Scheduled(DeferredOf(press.fn))

(***************************************************************************)
(* What a failed operation leaves behind.                                  *)
(***************************************************************************)
EditState == <<ctrl, remap, keycodes, rgb_config, debounce_enabled>>

NoSubWindow == remapper_frame = None /\ keybinds_frame = None /\ rgb_frame = None

FailedLoad == on_load /\ call'.fn = "load_from_device" /\ call'.ret = None

FailedSave == on_save_deferred /\ ~call'.ret[1]

\* C17: with no sub-window open, a press of Load whose load_from_device
\* returns None, a press of Save, and an on_save_deferred whose
\* save_to_device fails leave the controls of the main window, remap, keycodes
\* and rgb_config as they were.
C17_FailureKeepsEdits ==
    [][(NoSubWindow /\ (FailedLoad \/ on_save \/ FailedSave)) => UNCHANGED EditState]_vars

\* a load has failed on a form that an earlier load had filled
C17_Witness ==
    /\ call.fn = "load_from_device"
    /\ call.ret = None
    /\ status = "Error while trying to read from device."
    /\ form_src # None
    /\ rgb_config # None
    /\ NoSubWindow

\* C20: whenever Save is pressed with a device selected and no operation
\* pending, __extract_conf_from_gui__ yields a configuration value and that
\* value is what on_save_deferred passes to save_to_device.
C20_SavePassesValue ==
    (press # None /\ press.fn = "on_save") =>
        /\ press.conf # None
        /\ \/ \E i \in 1..Len(timers) :
                 timers[i].fn = "on_save_deferred" /\ timers[i].conf = press.conf
           \/ call.fn = "save_to_device" /\ call.conf = press.conf

(***************************************************************************)
(* Where the delay sits.                                                   *)
(***************************************************************************)
\* C21: for load and for save alike the device transaction is issued in the
\* handler of the button press, and only its result is handled after the
\* delay: every call of load_from_device or save_to_device is made by on_load
\* or on_save.
C21_IssuedAtPress ==
    call.fn # "idle" => call.by \in {"on_load", "on_save"}

\* C21, amended: load_from_device is called by on_load and the value it
\* returned waits in the timer for on_load_deferred; save_to_device is called
\* by on_save_deferred, after the delay, with the value on_save extracted
\* waiting in the timer until then.
C21_DelayPlacement ==
    /\ call.fn = "load_from_device" => call.by = "on_load"
    /\ call.fn = "save_to_device" => call.by = "on_save_deferred"
    /\ \A i \in 1..Len(timers) :
          /\ timers[i].fn = "on_load_deferred" =>
                call.fn = "load_from_device" /\ call.ret = timers[i].conf
          /\ timers[i].fn = "on_save_deferred" =>
                /\ press.fn = "on_save" /\ ~press.final
                /\ press.conf = timers[i].conf

\* a save whose transaction was made after the delay
C21_Witness ==
    /\ call.fn = "save_to_device"
    /\ call.by = "on_save_deferred"
    /\ press.fn = "on_save" /\ press.final
    /\ timers = <<>>

(***************************************************************************)
(* The sensitivity that is extracted.                                      *)
(***************************************************************************)
\* C22: the qe1_sens that __extract_conf_from_gui__ computes is never 0,
\* whatever the sensitivity control shows, its initial selection included.
C22_SensNeverZero ==
    /\ probe # None => probe.qe1_sens # 0
    /\ (press # None /\ press.conf # None) => press.conf.qe1_sens # 0

\* C22, amended: the qe1_sens that is computed is a value of SENS_OPTIONS, and
\* it is 0 exactly when the control shows "1:1", its first entry and its
\* initial selection.
C22_SensFromOptions ==
    probe # None =>
        /\ probe.qe1_sens \in SensValues
        /\ probe.qe1_sens = 0 <=> probe.qe1_sens_ctrl = SensPlace("1:1")
        /\ probe.qe1_sens_ctrl = NOT_FOUND => probe.qe1_sens = -4

\* Save on the window as it starts: "1:1" is selected and 0 is extracted
C22_Witness ==
    /\ probe # None
    /\ probe.src = None
    /\ probe.qe1_sens_ctrl = InitCtrl.qe1_sens_ctrl
    /\ probe.qe1_sens = 0
    /\ press # None /\ press.conf # None
    /\ press.conf.qe1_sens = 0

RemapWindowed(rm) == extract_remap_from_ui(RemapperFrame(rm))

RgbWindowed(config) == extract_from_ui(RgbFrame(config))

\* what self.remap and self.rgb_config can be when they come from the load of
\* conf, through any number of openings and closings of their windows
RemapOfLoad(conf) ==
    LET rm == PopulateRemap(conf)
    IN {rm, RemapWindowed(rm), RemapWindowed(RemapWindowed(rm))}

RgbOfLoad(conf) ==
    LET config == PopulateRgbConfig(conf)
    IN {config, RgbWindowed(config), RgbWindowed(RgbWindowed(config))}

\* C24: once on_load_deferred has populated the window, a sub-window that is
\* closed writes back only what came from that load: with the remapper
\* window closed self.remap is what the loaded value gives, and with the RGB
\* window closed self.rgb_config is what the loaded value gives.
C24_LoadNotOverwritten ==
    form_src # None =>
        /\ remapper_frame = None => remap \in RemapOfLoad(form_src)
        /\ rgb_frame = None => rgb_config \in RgbOfLoad(form_src)

====
